---- MODULE Spec2Model ----
(***************************************************************************)
(* State-machine model of the device-capture page (src/main.js):           *)
(* ConfigureAudioCapture and ConfigureVideoCapture, together with the      *)
(* platform objects their handlers talk to (getUserMedia requests, media   *)
(* streams, MediaRecorder objects, animation-frame requests).              *)
(*                                                                         *)
(* Every action is one run-to-completion task of the page's event loop:    *)
(* a handler invocation, a promise callback or a recorder event.  A        *)
(* handler that throws keeps the assignments it made before the throw;     *)
(* the exception it raised is recorded in a_exc / v_exc.                   *)
(*                                                                         *)
(* A handler action is the invocation of the handler function: the         *)
(* disabled flag of a button is recorded as the handlers set it, and the   *)
(* handler's own state check decides what an invocation does.  The page's  *)
(* markup is not among the sources; the buttons start labelled and         *)
(* enabled the way the handlers leave them in state "stopped".             *)
(*                                                                         *)
(* Platform behaviour assumed: MediaRecorder.stop() on an inactive         *)
(* recorder does nothing; stop() queues one task that fires dataavailable  *)
(* and then stop; a recorder that fails fires error and is then stopped    *)
(* the same way; the constructor throws NotSupportedError for a mimeType   *)
(* isTypeSupported rejects; an audio recorder started without a timeslice  *)
(* delivers its data only with the stop event.                             *)
(***************************************************************************)
EXTENDS Integers, Sequences, FiniteSets

\* ---------------------------------------------------------------- bounds
MaxAudioRequests == 3   \* getUserMedia requests the audio button may issue
MaxVideoRequests == 3   \* getUserMedia requests the video controller may issue
MaxVideoRecorders == 1  \* MediaRecorder objects start_video may construct
MaxChunks == 1          \* periodic dataavailable events buffered at once
MaxPictures == 2        \* elements appended to #pictures

\* ------------------------------------------------------- program constants
chrome_audio_mimeType == "audio/webm;codecs=opus"
safari_audio_mimeType == "audio/mp4;codecs=mp4a.40.2"
chrome_video_mimeType == "video/webm;codecs=vp8,opus"
safari_video_mimeType == "video/mp4;codecs=avc1.424028,mp4a.40.2"

VARIABLES
  platform,           \* containers the browser's MediaRecorder can write: subset of {"webm", "mp4"}
  \* ConfigureAudioCapture
  audio_state,        \* "stopped" | "recording" | "error"
  a_media_recorder,   \* media_recorder: 0 (null) or a recorder id
  a_media_chunks,     \* media_chunks: sequence of chunks (chunk = id of the recorder that emitted it)
  audio_stream,       \* 0 (null) or a stream id
  audio_button,       \* [textContent, disabled]
  sound_clips,        \* audio elements appended to .sound-clips
  \* platform state behind the audio controller
  a_issued,           \* getUserMedia requests issued so far
  a_pending,          \* ... of which still unresolved
  a_granted,          \* streams granted so far (stream ids 1..a_granted)
  a_open,             \* ids of streams with unstopped tracks
  a_rec,              \* recorder id -> "none" | "recording" | "stopping" | "inactive"
  a_mimeType,         \* recorder id -> the mimeType it was constructed with ("" if not constructed)
  a_frames,           \* streams whose draw() has an animation-frame request pending
  a_tail,             \* per render loop: "fresh", "left" (audio_state has left recording since the
                      \* loop started), "cleared" (the loop has drawn a frame since then)
  a_console,          \* what the latest audio task wrote with console.log ("" if nothing)
  a_exc,              \* exception raised by the latest audio task ("none" if it returned)
  \* ConfigureVideoCapture
  video_state,        \* "stopped" | "previewing" | "recording" | "error"
  video_stream,       \* 0 (null) or a stream id
  back_camera,
  facingMode,         \* picture_constraints.video.facingMode
  v_media_recorder,   \* media_recorder
  v_media_chunks,     \* media_chunks
  can_flip,
  ui,                 \* preview_button text/disabled, flip/photo/video disabled
  pictures,           \* elements appended to #pictures
  \* platform state behind the video controller
  v_issued, v_pending, v_granted, v_open,
  v_rec,
  v_mimeType,         \* recorder id -> the mimeType it was constructed with ("" if not constructed)
  flip_pending,       \* a flip_camera call has issued a request and requests are still unresolved
  v_exc               \* exception raised by the latest video task ("none" if it returned)

avars == <<audio_state, a_media_recorder, a_media_chunks, audio_stream,
           audio_button, sound_clips, a_issued, a_pending,
           a_granted, a_open, a_rec, a_mimeType, a_frames, a_tail, a_console,
           a_exc>>
vvars == <<video_state, video_stream, back_camera, facingMode,
           v_media_recorder, v_media_chunks, can_flip, ui, pictures,
           v_issued, v_pending, v_granted, v_open, v_rec,
           v_mimeType, flip_pending, v_exc>>
vars == <<platform, avars, vvars>>

AudioIds == 1..MaxAudioRequests
VideoStreamIds == 1..MaxVideoRequests
VideoRecIds == 1..MaxVideoRecorders

\* MediaRecorder.isTypeSupported: the two webm types are the ones a browser
\* writing webm accepts, the two mp4 types the ones a browser writing mp4 accepts
isTypeSupported(type) ==
  \/ type \in {chrome_audio_mimeType, chrome_video_mimeType} /\ "webm" \in platform
  \/ type \in {safari_audio_mimeType, safari_video_mimeType} /\ "mp4" \in platform

\* ======================================================================
\* ConfigureAudioCapture
\* ======================================================================

\* the codec choice with the preference reversed: the mp4 type if supported,
\* else the webm type
audio_codec_mp4_first == IF isTypeSupported(safari_audio_mimeType)
                         THEN safari_audio_mimeType ELSE chrome_audio_mimeType

\* the codec the grant callback picks (main.js 93-94)
audio_codec == IF isTypeSupported(chrome_audio_mimeType)
               THEN chrome_audio_mimeType ELSE safari_audio_mimeType


\* the render loops' bookkeeping when a task assigns audio_state: a running
\* loop that has seen only "recording" so far sees it leave
LeftRecording(state) ==
  [s \in AudioIds |->
     IF audio_state = "recording" /\ state # "recording"
        /\ s \in a_frames /\ a_tail[s] = "fresh"
     THEN "left" ELSE a_tail[s]]

\* the click handler with a retry: a click in error issues a device-access
\* request, as a click in stopped does
audio_button_onclick_retry ==
  /\ UNCHANGED <<platform, a_mimeType>>
  /\ CASE audio_state \in {"stopped", "error"} ->
            \* navigator.mediaDevices.getUserMedia(audio_constraints)
            /\ a_issued < MaxAudioRequests
            /\ a_issued' = a_issued + 1
            /\ a_pending' = a_pending + 1
            /\ a_exc' = "none"
            /\ a_console' = ""
            /\ UNCHANGED <<audio_state, a_media_recorder, a_media_chunks,
                           audio_stream, audio_button, sound_clips,
                           a_granted, a_open, a_rec, a_frames, a_tail>>
       [] audio_state = "recording" ->
            IF a_media_recorder = 0
            THEN \* media_recorder.stop() on null
                 /\ a_exc' = "TypeError"
                 /\ a_console' = ""
                 /\ UNCHANGED <<audio_state, a_media_recorder, a_media_chunks,
                                audio_stream, audio_button, sound_clips,
                                a_issued, a_pending, a_granted, a_open, a_rec,
                                a_frames, a_tail>>
            ELSE \* stop() queues the dataavailable + stop events; it does
                 \* nothing on a recorder that is already inactive
                 /\ a_rec' = IF a_rec[a_media_recorder] = "recording"
                             THEN [a_rec EXCEPT ![a_media_recorder] = "stopping"]
                             ELSE a_rec
                 /\ audio_state' = "stopped"
                 /\ audio_button' = [audio_button EXCEPT !.textContent = "Record"]
                 /\ a_tail' = LeftRecording("stopped")
                 /\ a_exc' = "none"
                 /\ a_console' = ""
                 /\ UNCHANGED <<a_media_recorder, a_media_chunks, audio_stream,
                                sound_clips, a_issued, a_pending, a_granted,
                                a_open, a_frames>>
       [] OTHER ->
            \* console.log("Can't handle audio button click in state ...")
            /\ a_exc' = "none"
            /\ a_console' = "Can't handle audio button click in state"
            /\ UNCHANGED <<audio_state, a_media_recorder, a_media_chunks,
                           audio_stream, audio_button, sound_clips,
                           a_issued, a_pending, a_granted, a_open, a_rec,
                           a_frames, a_tail>>

\* audio_button.onclick (main.js 82-117)
audio_button_onclick ==
  /\ UNCHANGED <<platform, a_mimeType>>
  /\ CASE audio_state = "stopped" ->
            \* navigator.mediaDevices.getUserMedia(audio_constraints)
            /\ a_issued < MaxAudioRequests
            /\ a_issued' = a_issued + 1
            /\ a_pending' = a_pending + 1
            /\ a_exc' = "none"
            /\ a_console' = ""
            /\ UNCHANGED <<audio_state, a_media_recorder, a_media_chunks,
                           audio_stream, audio_button, sound_clips,
                           a_granted, a_open, a_rec, a_frames, a_tail>>
       [] audio_state = "recording" ->
            IF a_media_recorder = 0
            THEN \* media_recorder.stop() on null
                 /\ a_exc' = "TypeError"
                 /\ a_console' = ""
                 /\ UNCHANGED <<audio_state, a_media_recorder, a_media_chunks,
                                audio_stream, audio_button, sound_clips,
                                a_issued, a_pending, a_granted, a_open, a_rec,
                                a_frames, a_tail>>
            ELSE \* stop() queues the dataavailable + stop events; it does
                 \* nothing on a recorder that is already inactive
                 /\ a_rec' = IF a_rec[a_media_recorder] = "recording"
                             THEN [a_rec EXCEPT ![a_media_recorder] = "stopping"]
                             ELSE a_rec
                 /\ audio_state' = "stopped"
                 /\ audio_button' = [audio_button EXCEPT !.textContent = "Record"]
                 /\ a_tail' = LeftRecording("stopped")
                 /\ a_exc' = "none"
                 /\ a_console' = ""
                 /\ UNCHANGED <<a_media_recorder, a_media_chunks, audio_stream,
                                sound_clips, a_issued, a_pending, a_granted,
                                a_open, a_frames>>
       [] OTHER ->
            \* console.log("Can't handle audio button click in state ...")
            /\ a_exc' = "none"
            /\ a_console' = "Can't handle audio button click in state"
            /\ UNCHANGED <<audio_state, a_media_recorder, a_media_chunks,
                           audio_stream, audio_button, sound_clips,
                           a_issued, a_pending, a_granted, a_open, a_rec,
                           a_frames, a_tail>>

\* the fulfilment callback of getUserMedia (main.js 85-104); visualize_audio
\* runs draw() once, which requests the next frame because audio_state is
\* "recording" by then (main.js 103, 140, 153-157)
audio_granted ==
  /\ a_pending > 0
  /\ UNCHANGED platform
  /\ a_console' = ""
  /\ LET stream == a_granted + 1 IN
     /\ a_pending' = a_pending - 1
     /\ a_granted' = stream
     /\ a_open' = a_open \cup {stream}
     /\ audio_stream' = stream
     /\ IF ~isTypeSupported(audio_codec)
        THEN \* new MediaRecorder(...) throws on an unsupported mimeType
             /\ a_exc' = "NotSupportedError"
             /\ UNCHANGED <<audio_state, a_media_recorder, a_media_chunks,
                            audio_button, sound_clips, a_issued, a_rec,
                            a_mimeType, a_frames, a_tail>>
        ELSE /\ a_media_recorder' = stream
             /\ a_rec' = [a_rec EXCEPT ![stream] = "recording"]
             /\ a_mimeType' = [a_mimeType EXCEPT ![stream] = audio_codec]
             /\ audio_state' = "recording"
             /\ audio_button' = [audio_button EXCEPT !.textContent = "Stop"]
             /\ a_frames' = a_frames \cup {stream}
             /\ a_tail' = [a_tail EXCEPT ![stream] = "fresh"]
             /\ a_exc' = "none"
             /\ UNCHANGED <<a_media_chunks, sound_clips, a_issued>>

\* on_media_recorder_error (main.js 53-58)
on_media_recorder_error ==
  /\ audio_state' = "error"
  /\ audio_button' = [textContent |-> "Error", disabled |-> TRUE]

\* the rejection callback of getUserMedia (main.js 104-107)
audio_denied ==
  /\ a_pending > 0
  /\ UNCHANGED <<platform, a_mimeType>>
  /\ a_pending' = a_pending - 1
  /\ on_media_recorder_error
  /\ a_tail' = LeftRecording("error")
  /\ a_console' = ""
  /\ a_exc' = "none"
  /\ UNCHANGED <<a_media_recorder, a_media_chunks, audio_stream, sound_clips,
                 a_issued, a_granted, a_open, a_rec, a_frames>>

\* the error event of recorder r (main.js 96, 53-58); the platform stops a
\* recorder that failed, so its stop event follows
audio_recorder_error(r) ==
  /\ a_rec[r] = "recording"
  /\ UNCHANGED <<platform, a_mimeType>>
  /\ a_rec' = [a_rec EXCEPT ![r] = "stopping"]
  /\ on_media_recorder_error
  /\ a_tail' = LeftRecording("error")
  /\ a_console' = ""
  /\ a_exc' = "none"
  /\ UNCHANGED <<a_media_recorder, a_media_chunks, audio_stream, sound_clips,
                 a_issued, a_pending, a_granted, a_open, a_frames>>

\* on_media_recorder_data (main.js 60)
on_media_recorder_data(chunks, r) == Append(chunks, r)

\* the dataavailable + stop events of recorder r, delivered in one task:
\* on_media_recorder_data, then on_media_recorder_stop (main.js 60, 62-80)
on_media_recorder_stop(r) ==
  /\ a_rec[r] = "stopping"
  /\ UNCHANGED <<platform, a_mimeType>>
  /\ UNCHANGED a_tail
  /\ a_console' = ""
  /\ a_rec' = [a_rec EXCEPT ![r] = "inactive"]
  /\ LET chunks == on_media_recorder_data(a_media_chunks, r) IN
     IF a_media_recorder = 0
     THEN \* media_recorder.mimeType on null (line 64)
          /\ a_media_chunks' = chunks
          /\ a_exc' = "TypeError"
          /\ UNCHANGED <<audio_state, a_media_recorder, audio_stream,
                         audio_button, sound_clips, a_issued, a_pending,
                         a_granted, a_open, a_frames>>
     ELSE /\ sound_clips' = Append(sound_clips,
                                   [chunks |-> chunks, type |-> audio_codec])
          /\ IF audio_stream = 0
             THEN \* audio_stream.getTracks() on null (line 76)
                  /\ a_media_chunks' = chunks
                  /\ a_exc' = "TypeError"
                  /\ UNCHANGED <<a_media_recorder, audio_stream, a_open>>
             ELSE /\ a_open' = a_open \ {audio_stream}
                  /\ audio_stream' = 0
                  /\ a_media_chunks' = <<>>
                  /\ a_media_recorder' = 0
                  /\ a_exc' = "none"
          /\ UNCHANGED <<audio_state, audio_button, a_issued, a_pending,
                         a_granted, a_frames>>

\* one animation frame of the render loop started for stream s (main.js 142-181)
draw(s) ==
  /\ s \in a_frames
  /\ UNCHANGED <<platform, a_mimeType>>
  /\ a_frames' = IF audio_state # "recording" THEN a_frames \ {s} ELSE a_frames
  /\ a_tail' = IF a_tail[s] = "left" THEN [a_tail EXCEPT ![s] = "cleared"]
                ELSE a_tail
  /\ a_console' = ""
  /\ a_exc' = "none"
  /\ UNCHANGED <<audio_state, a_media_recorder, a_media_chunks, audio_stream,
                 audio_button, sound_clips, a_issued, a_pending, a_granted,
                 a_open, a_rec>>

InitAudio ==
  /\ audio_state = "stopped"
  /\ a_media_recorder = 0
  /\ a_media_chunks = <<>>
  /\ audio_stream = 0
  /\ audio_button = [textContent |-> "Record", disabled |-> FALSE]
  /\ sound_clips = <<>>
  /\ a_issued = 0
  /\ a_pending = 0
  /\ a_granted = 0
  /\ a_open = {}
  /\ a_rec = [r \in AudioIds |-> "none"]
  /\ a_mimeType = [r \in AudioIds |-> ""]
  /\ a_frames = {}
  /\ a_tail = [s \in AudioIds |-> "fresh"]
  /\ a_console = ""
  /\ a_exc = "none"

\* ======================================================================
\* ConfigureVideoCapture
\* ======================================================================

\* update_ui (main.js 213-242), as the new value of the buttons' properties
update_ui(state, flip, u) ==
  CASE state = "stopped" ->
         [u EXCEPT !.preview_text = "Preview", !.flip_disabled = TRUE,
                   !.photo_disabled = TRUE, !.video_disabled = TRUE]
    [] state = "previewing" ->
         [u EXCEPT !.preview_text = "Close", !.flip_disabled = ~flip,
                   !.photo_disabled = FALSE, !.video_disabled = FALSE]
    [] state = "recording" ->
         [u EXCEPT !.preview_text = "Stop", !.flip_disabled = TRUE,
                   !.photo_disabled = TRUE, !.video_disabled = TRUE]
    [] OTHER ->
         [u EXCEPT !.preview_text = "Error", !.preview_disabled = TRUE,
                   !.flip_disabled = TRUE, !.photo_disabled = TRUE,
                   !.video_disabled = TRUE]

\* the codec start_video picks (main.js 316-317)
video_codec == IF isTypeSupported(chrome_video_mimeType)
               THEN chrome_video_mimeType ELSE safari_video_mimeType


\* every video variable a throwing guard leaves alone
VideoUntouched ==
  UNCHANGED <<video_state, video_stream, back_camera, facingMode,
              v_media_recorder, v_media_chunks, can_flip, ui, pictures,
              v_issued, v_pending, v_granted, v_open, v_rec, v_mimeType,
              flip_pending>>

\* start_preview (main.js 252-272): the synchronous part, which issues the
\* device-access request
start_preview ==
  IF video_state # "stopped"
  THEN v_exc' = "Invalid state" /\ UNCHANGED <<v_issued, v_pending>>
  ELSE /\ v_issued < MaxVideoRequests
       /\ v_issued' = v_issued + 1
       /\ v_pending' = v_pending + 1
       /\ v_exc' = "none"

\* stop_preview (main.js 274-283)
stop_preview ==
  IF video_state # "previewing"
  THEN /\ v_exc' = "Invalid state"
       /\ UNCHANGED <<video_state, video_stream, v_open, ui>>
  ELSE IF video_stream = 0
  THEN \* video_stream.getTracks() on null (line 277)
       /\ v_exc' = "TypeError"
       /\ UNCHANGED <<video_state, video_stream, v_open, ui>>
  ELSE /\ v_open' = v_open \ {video_stream}
       /\ video_stream' = 0
       /\ video_state' = "stopped"
       /\ ui' = update_ui("stopped", can_flip, ui)
       /\ v_exc' = "none"

\* preview_button.onclick (main.js 362-379)
preview_button_onclick ==
  /\ UNCHANGED <<platform, v_mimeType>>
  /\ CASE video_state = "stopped" ->
            /\ start_preview
            /\ UNCHANGED <<flip_pending, video_state, video_stream, back_camera, facingMode,
                           v_media_recorder, v_media_chunks, can_flip, ui,
                           pictures, v_granted, v_open, v_rec>>
       [] video_state = "previewing" ->
            /\ stop_preview
            /\ UNCHANGED <<flip_pending, back_camera, facingMode, v_media_recorder,
                           v_media_chunks, can_flip, pictures, v_issued,
                           v_pending, v_granted, v_rec>>
       [] video_state = "recording" ->
            IF v_media_recorder = 0
            THEN v_exc' = "TypeError" /\ VideoUntouched
            ELSE /\ v_rec' = IF v_rec[v_media_recorder] = "recording"
                             THEN [v_rec EXCEPT ![v_media_recorder] = "stopping"]
                             ELSE v_rec
                 /\ v_exc' = "none"
                 /\ UNCHANGED <<flip_pending, video_state, video_stream, back_camera,
                                facingMode, v_media_recorder, v_media_chunks,
                                can_flip, ui, pictures, v_issued, v_pending,
                                v_granted, v_open>>
       [] OTHER ->
            /\ video_state' = "error"
            /\ ui' = update_ui("error", can_flip, ui)
            /\ v_exc' = "none"
            /\ UNCHANGED <<video_stream, back_camera, facingMode,
                           v_media_recorder, v_media_chunks, can_flip,
                           pictures, v_issued, v_pending, v_granted, v_open,
                           v_rec, flip_pending>>

\* flip_camera (main.js 244-250): stop_preview() then start_preview()
flip_camera ==
  /\ UNCHANGED <<platform, v_mimeType>>
  /\ IF video_state # "previewing"
     THEN v_exc' = "Invalid state" /\ VideoUntouched
     ELSE /\ back_camera' = ~back_camera
          /\ facingMode' = IF ~back_camera THEN "environment" ELSE "user"
          /\ IF video_stream = 0
             THEN \* stop_preview throws at line 277; start_preview is not reached
                  /\ v_exc' = "TypeError"
                  /\ UNCHANGED <<video_state, video_stream, v_open, ui,
                                 v_issued, v_pending, flip_pending>>
             ELSE /\ v_open' = v_open \ {video_stream}
                  /\ video_stream' = 0
                  /\ video_state' = "stopped"
                  /\ ui' = update_ui("stopped", can_flip, ui)
                  /\ v_issued < MaxVideoRequests
                  /\ v_issued' = v_issued + 1
                  /\ v_pending' = v_pending + 1
                  /\ flip_pending' = TRUE
                  /\ v_exc' = "none"
          /\ UNCHANGED <<v_media_recorder, v_media_chunks, can_flip, pictures,
                         v_granted, v_rec>>

\* the fulfilment callback of getUserMedia (main.js 255-265); flip is what the
\* video track's capabilities report about facing modes
video_granted(flip) ==
  /\ v_pending > 0
  /\ UNCHANGED <<platform, v_mimeType>>
  /\ LET stream == v_granted + 1 IN
     /\ v_pending' = v_pending - 1
     /\ v_granted' = stream
     /\ v_open' = v_open \cup {stream}
     /\ video_stream' = stream
     /\ video_state' = "previewing"
     /\ can_flip' = flip
     /\ ui' = update_ui("previewing", flip, ui)
     /\ flip_pending' = (flip_pending /\ v_pending > 1)
     /\ v_exc' = "none"
     /\ UNCHANGED <<back_camera, facingMode, v_media_recorder, v_media_chunks,
                    pictures, v_issued, v_rec>>

\* the rejection callback of getUserMedia (main.js 266-270)
video_denied ==
  /\ v_pending > 0
  /\ UNCHANGED <<platform, v_mimeType>>
  /\ v_pending' = v_pending - 1
  /\ video_state' = "error"
  /\ ui' = update_ui("error", can_flip, ui)
  /\ flip_pending' = (flip_pending /\ v_pending > 1)
  /\ v_exc' = "none"
  /\ UNCHANGED <<video_stream, back_camera, facingMode, v_media_recorder,
                 v_media_chunks, can_flip, pictures, v_issued, v_granted,
                 v_open, v_rec>>

\* take_picture as a shutter that also closes the preview: the image is
\* appended, then the stream is released and the controller is stopped
take_picture_closing ==
  /\ UNCHANGED <<platform, v_mimeType>>
  /\ IF video_state # "previewing"
     THEN v_exc' = "Invalid state" /\ VideoUntouched
     ELSE /\ Len(pictures) < MaxPictures
          /\ pictures' = Append(pictures, [kind |-> "img", chunks |-> <<>>,
                                           type |-> "image/png"])
          /\ v_open' = v_open \ {video_stream}
          /\ video_stream' = 0
          /\ video_state' = "stopped"
          /\ ui' = update_ui("stopped", can_flip, ui)
          /\ v_exc' = "none"
          /\ UNCHANGED <<back_camera, facingMode, v_media_recorder,
                         v_media_chunks, can_flip, v_issued, v_pending,
                         v_granted, v_rec, flip_pending>>

\* take_picture (main.js 285-306)
take_picture ==
  /\ UNCHANGED <<platform, v_mimeType>>
  /\ IF video_state # "previewing"
     THEN v_exc' = "Invalid state" /\ VideoUntouched
     ELSE /\ Len(pictures) < MaxPictures
          /\ pictures' = Append(pictures, [kind |-> "img", chunks |-> <<>>,
                                           type |-> "image/png"])
          /\ v_exc' = "none"
          /\ UNCHANGED <<video_state, video_stream, back_camera, facingMode,
                         v_media_recorder, v_media_chunks, can_flip, ui,
                         v_issued, v_pending, v_granted, v_open, v_rec,
                         flip_pending>>

\* recorders constructed so far; the next one gets the next id
VideoRecorders == {r \in VideoRecIds : v_rec[r] # "none"}

\* start_video without its state check: it constructs and starts a recorder
\* in whatever state it is invoked
start_video_unchecked ==
  /\ UNCHANGED platform
  /\ IF video_stream = 0
     THEN v_exc' = "TypeError" /\ VideoUntouched
     ELSE IF ~isTypeSupported(video_codec)
     THEN v_exc' = "NotSupportedError" /\ VideoUntouched
     ELSE LET r == Cardinality(VideoRecorders) + 1 IN
          /\ r \in VideoRecIds
          /\ v_media_recorder' = r
          /\ v_rec' = [v_rec EXCEPT ![r] = "recording"]
          /\ v_mimeType' = [v_mimeType EXCEPT ![r] = video_codec]
          /\ video_state' = "recording"
          /\ ui' = update_ui("recording", can_flip, ui)
          /\ v_exc' = "none"
          /\ UNCHANGED <<video_stream, back_camera, facingMode,
                         v_media_chunks, can_flip, pictures, v_issued,
                         v_pending, v_granted, v_open, flip_pending>>

\* start_video (main.js 308-335)
start_video ==
  /\ UNCHANGED platform
  /\ IF video_state # "previewing"
     THEN v_exc' = "Invalid state" /\ VideoUntouched
     ELSE IF video_stream = 0
     THEN \* new MediaRecorder(null, ...) (line 318)
          v_exc' = "TypeError" /\ VideoUntouched
     ELSE IF ~isTypeSupported(video_codec)
     THEN \* new MediaRecorder(...) throws on an unsupported mimeType
          v_exc' = "NotSupportedError" /\ VideoUntouched
     ELSE LET r == Cardinality(VideoRecorders) + 1 IN
          /\ r \in VideoRecIds
          /\ v_media_recorder' = r
          /\ v_rec' = [v_rec EXCEPT ![r] = "recording"]
          /\ v_mimeType' = [v_mimeType EXCEPT ![r] = video_codec]
          /\ video_state' = "recording"
          /\ ui' = update_ui("recording", can_flip, ui)
          /\ v_exc' = "none"
          /\ UNCHANGED <<video_stream, back_camera, facingMode,
                         v_media_chunks, can_flip, pictures, v_issued,
                         v_pending, v_granted, v_open, flip_pending>>

\* media_recorder.ondataavailable (main.js 320-322)
video_ondataavailable(chunks, r) == Append(chunks, r)

\* a periodic dataavailable event of recorder r (started with a 1 s timeslice,
\* main.js 331)
video_recorder_data(r) ==
  /\ v_rec[r] = "recording"
  /\ Len(v_media_chunks) < MaxChunks
  /\ UNCHANGED <<platform, v_mimeType>>
  /\ v_media_chunks' = video_ondataavailable(v_media_chunks, r)
  /\ v_exc' = "none"
  /\ UNCHANGED <<video_state, video_stream, back_camera, facingMode,
                 v_media_recorder, can_flip, ui, pictures, v_issued,
                 v_pending, v_granted, v_open, v_rec, flip_pending>>

\* media_recorder.onerror of recorder r (main.js 325-329); the platform stops
\* a recorder that failed, so its stop event follows
video_recorder_error(r) ==
  /\ v_rec[r] = "recording"
  /\ UNCHANGED <<platform, v_mimeType>>
  /\ v_rec' = [v_rec EXCEPT ![r] = "stopping"]
  /\ video_state' = "error"
  /\ ui' = update_ui("error", can_flip, ui)
  /\ v_exc' = "none"
  /\ UNCHANGED <<video_stream, back_camera, facingMode, v_media_recorder,
                 v_media_chunks, can_flip, pictures, v_issued, v_pending,
                 v_granted, v_open, flip_pending>>

\* the dataavailable + stop events of recorder r, delivered in one task:
\* ondataavailable, then save_video (main.js 320-324, 337-359)
save_video(r) ==
  /\ v_rec[r] = "stopping"
  /\ UNCHANGED <<platform, v_mimeType>>
  /\ v_rec' = [v_rec EXCEPT ![r] = "inactive"]
  /\ LET chunks == video_ondataavailable(v_media_chunks, r) IN
     IF video_state # "recording"
     THEN /\ v_media_chunks' = chunks
          /\ v_exc' = "Invalid state"
          /\ UNCHANGED <<video_state, v_media_recorder, ui, pictures>>
     ELSE IF v_media_recorder = 0
     THEN \* media_recorder.mimeType on null (line 340)
          /\ v_media_chunks' = chunks
          /\ v_exc' = "TypeError"
          /\ UNCHANGED <<video_state, v_media_recorder, ui, pictures>>
     ELSE /\ pictures' = Append(pictures, [kind |-> "video", chunks |-> chunks,
                                           type |-> video_codec])
          /\ v_media_chunks' = <<>>
          /\ v_media_recorder' = 0
          /\ video_state' = "previewing"
          /\ ui' = update_ui("previewing", can_flip, ui)
          /\ v_exc' = "none"
  /\ UNCHANGED <<video_stream, back_camera, facingMode, can_flip, v_issued,
                 v_pending, v_granted, v_open, flip_pending>>

InitVideo ==
  /\ video_state = "stopped"
  /\ video_stream = 0
  /\ back_camera = TRUE
  /\ facingMode = "environment"
  /\ v_media_recorder = 0
  /\ v_media_chunks = <<>>
  /\ can_flip = FALSE
  /\ ui = [preview_text |-> "Preview", preview_disabled |-> FALSE,
           flip_disabled |-> TRUE, photo_disabled |-> TRUE,
           video_disabled |-> TRUE]
  /\ pictures = <<>>
  /\ v_issued = 0
  /\ v_pending = 0
  /\ v_granted = 0
  /\ v_open = {}
  /\ v_rec = [r \in VideoRecIds |-> "none"]
  /\ v_mimeType = [r \in VideoRecIds |-> ""]
  /\ flip_pending = FALSE
  /\ v_exc = "none"

\* ======================================================================
\* Specifications
\* ======================================================================

\* browsers on which recording works at all: MediaRecorder accepts at least
\* one of the two containers the page asks for
InitPlatform == platform \in (SUBSET {"webm", "mp4"}) \ {{}}

Init == InitPlatform /\ InitAudio /\ InitVideo

NextAudio ==
  \/ audio_button_onclick /\ UNCHANGED vvars
  \/ audio_granted /\ UNCHANGED vvars
  \/ audio_denied /\ UNCHANGED vvars
  \/ (\E r \in AudioIds : audio_recorder_error(r)) /\ UNCHANGED vvars
  \/ (\E r \in AudioIds : on_media_recorder_stop(r)) /\ UNCHANGED vvars
  \/ (\E s \in AudioIds : draw(s)) /\ UNCHANGED vvars

NextVideo ==
  \/ preview_button_onclick /\ UNCHANGED avars
  \/ flip_camera /\ UNCHANGED avars
  \/ take_picture /\ UNCHANGED avars
  \/ start_video /\ UNCHANGED avars
  \/ (\E flip \in BOOLEAN : video_granted(flip)) /\ UNCHANGED avars
  \/ video_denied /\ UNCHANGED avars
  \/ (\E r \in VideoRecIds : video_recorder_data(r)) /\ UNCHANGED avars
  \/ (\E r \in VideoRecIds : video_recorder_error(r)) /\ UNCHANGED avars
  \/ (\E r \in VideoRecIds : save_video(r)) /\ UNCHANGED avars

\* the audio controller alone (no video event occurs)
SpecAudio == Init /\ [][NextAudio]_vars

\* the video controller alone (no audio event occurs)
SpecVideo == Init /\ [][NextVideo]_vars

\* no event of the controller has happened yet: it is as constructed
\* (equivalent to InitAudio, resp. InitVideo, in every reachable state: the
\* first audio event can only be a click in stopped, which issues a request,
\* and a video event either issues a request or raises "Invalid state")
AudioFresh == a_issued = 0
VideoFresh == v_issued = 0 /\ v_exc = "none"

\* The two controllers share no variable (avars and vvars are disjoint and
\* every action leaves the other controller's variables unchanged), so the
\* reachable states of the page are the pairs of a reachable audio state and a
\* reachable video state.  Spec explores the page one controller at a time:
\* audio events while the video controller is as constructed, video events
\* while the audio controller is as constructed.
Next ==
  \/ VideoFresh /\ audio_button_onclick /\ UNCHANGED vvars
  \/ VideoFresh /\ audio_granted /\ UNCHANGED vvars
  \/ VideoFresh /\ audio_denied /\ UNCHANGED vvars
  \/ VideoFresh /\ (\E r \in AudioIds : audio_recorder_error(r)) /\ UNCHANGED vvars
  \/ VideoFresh /\ (\E r \in AudioIds : on_media_recorder_stop(r)) /\ UNCHANGED vvars
  \/ VideoFresh /\ (\E s \in AudioIds : draw(s)) /\ UNCHANGED vvars
  \/ AudioFresh /\ preview_button_onclick /\ UNCHANGED avars
  \/ AudioFresh /\ flip_camera /\ UNCHANGED avars
  \/ AudioFresh /\ take_picture /\ UNCHANGED avars
  \/ AudioFresh /\ start_video /\ UNCHANGED avars
  \/ AudioFresh /\ (\E flip \in BOOLEAN : video_granted(flip)) /\ UNCHANGED avars
  \/ AudioFresh /\ video_denied /\ UNCHANGED avars
  \/ AudioFresh /\ (\E r \in VideoRecIds : video_recorder_data(r)) /\ UNCHANGED avars
  \/ AudioFresh /\ (\E r \in VideoRecIds : video_recorder_error(r)) /\ UNCHANGED avars
  \/ AudioFresh /\ (\E r \in VideoRecIds : save_video(r)) /\ UNCHANGED avars

Spec == Init /\ [][Next]_vars

\* the audio controller with no denial and no recorder error: clicks, grants,
\* recorder stop events and animation frames only
NextAudioNoFault ==
  \/ audio_button_onclick /\ UNCHANGED vvars
  \/ audio_granted /\ UNCHANGED vvars
  \/ (\E r \in AudioIds : on_media_recorder_stop(r)) /\ UNCHANGED vvars
  \/ (\E s \in AudioIds : draw(s)) /\ UNCHANGED vvars

SpecAudioNoFault == Init /\ [][NextAudioNoFault]_vars

\* the video controller with no denial and no recorder error: button clicks,
\* grants, periodic data and recorder stop events only, so that every stop
\* event answers a preview-button click in recording
NextVideoNoFault ==
  \/ preview_button_onclick /\ UNCHANGED avars
  \/ flip_camera /\ UNCHANGED avars
  \/ take_picture /\ UNCHANGED avars
  \/ start_video /\ UNCHANGED avars
  \/ (\E flip \in BOOLEAN : video_granted(flip)) /\ UNCHANGED avars
  \/ (\E r \in VideoRecIds : video_recorder_data(r)) /\ UNCHANGED avars
  \/ (\E r \in VideoRecIds : save_video(r)) /\ UNCHANGED avars

SpecVideoNoFault == Init /\ [][NextVideoNoFault]_vars

\* any browser that has MediaRecorder, those that can write neither container
\* included
InitAnyPlatform ==
  /\ platform \in SUBSET {"webm", "mp4"}
  /\ InitAudio
  /\ InitVideo

SpecAnyPlatform == InitAnyPlatform /\ [][Next]_vars

\* the page with no denial and no recorder error, one controller at a time as
\* in Next: every recording ends by a click that stops its recorder
NextNoFault ==
  \/ VideoFresh /\ audio_button_onclick /\ UNCHANGED vvars
  \/ VideoFresh /\ audio_granted /\ UNCHANGED vvars
  \/ VideoFresh /\ (\E r \in AudioIds : on_media_recorder_stop(r)) /\ UNCHANGED vvars
  \/ VideoFresh /\ (\E s \in AudioIds : draw(s)) /\ UNCHANGED vvars
  \/ AudioFresh /\ preview_button_onclick /\ UNCHANGED avars
  \/ AudioFresh /\ flip_camera /\ UNCHANGED avars
  \/ AudioFresh /\ take_picture /\ UNCHANGED avars
  \/ AudioFresh /\ start_video /\ UNCHANGED avars
  \/ AudioFresh /\ (\E flip \in BOOLEAN : video_granted(flip)) /\ UNCHANGED avars
  \/ AudioFresh /\ (\E r \in VideoRecIds : video_recorder_data(r)) /\ UNCHANGED avars
  \/ AudioFresh /\ (\E r \in VideoRecIds : save_video(r)) /\ UNCHANGED avars

SpecNoFault == Init /\ [][NextNoFault]_vars

\* ======================================================================
\* Claims
\* ======================================================================

\* C1: with no denial and no recorder error, audio_state changes only
\* stopped -> recording and recording -> stopped, and no click handler or
\* callback raises an exception.
C1_AlternatesAndNeverThrows ==
  [][ /\ (audio_state' # audio_state =>
            <<audio_state, audio_state'>> \in
               {<<"stopped", "recording">>, <<"recording", "stopped">>})
      /\ a_exc' = "none" ]_vars

\* C2: each controller has at most one open device stream in every
\* reachable state.
C2_AtMostOneOpenStream ==
  /\ Cardinality(a_open) <= 1
  /\ Cardinality(v_open) <= 1

\* C3: a controller never issues a device-access request while a stream
\* granted to it earlier is still open.  (The handlers that issue a request
\* open no stream themselves, and flip_camera stops the old stream before it
\* issues the request, so the streams open when the request is issued are
\* the ones open when the handler returns.)
C3_NoRequestWhileStreamOpen ==
  [][ /\ (a_issued' > a_issued => a_open' = {})
      /\ (v_issued' > v_issued => v_open' = {}) ]_vars

\* C4: the stream handle is non-null exactly when the controller's state is
\* neither stopped nor error.
C4_StreamHandleIffActive ==
  /\ (audio_stream # 0) <=> (audio_state \notin {"stopped", "error"})
  /\ (video_stream # 0) <=> (video_state \notin {"stopped", "error"})

\* C5: the recorder handle is non-null exactly when the controller's state
\* is recording, and media_chunks is empty in every other state.
C5_RecorderIffRecording ==
  /\ (a_media_recorder # 0) <=> (audio_state = "recording")
  /\ audio_state # "recording" => a_media_chunks = <<>>
  /\ (v_media_recorder # 0) <=> (video_state = "recording")
  /\ video_state # "recording" => v_media_chunks = <<>>

\* C6: once a controller's state is error it stays error, and its primary
\* button stays disabled.
C6_ErrorIsTerminal ==
  [][ /\ (audio_state = "error" =>
            audio_state' = "error" /\ audio_button'.disabled)
      /\ (video_state = "error" =>
            video_state' = "error" /\ ui'.preview_disabled) ]_vars

\* nothing is in flight for the controller: no unresolved request, no
\* recorder that is recording or has a stop event queued
AudioQuiescent ==
  a_pending = 0 /\ \A r \in AudioIds : a_rec[r] \in {"none", "inactive"}
VideoQuiescent ==
  v_pending = 0 /\ \A r \in VideoRecIds : v_rec[r] \in {"none", "inactive"}

\* C7: a stream handle is never cleared or overwritten while the stream it
\* referenced still has unstopped tracks, and once a controller is in stopped
\* or error with nothing in flight no stream of it is open.
C7_StreamsAlwaysReleased ==
  [][ /\ (audio_stream # 0 /\ audio_stream' # audio_stream =>
            audio_stream \notin a_open')
      /\ (video_stream # 0 /\ video_stream' # video_stream =>
            video_stream \notin v_open')
      /\ (audio_state' \in {"stopped", "error"} /\ AudioQuiescent' =>
            a_open' = {})
      /\ (video_state' \in {"stopped", "error"} /\ VideoQuiescent' =>
            v_open' = {}) ]_vars

\* C8: when the request issued by a camera flip has resolved, the controller
\* is previewing with exactly one open stream, the one video_stream
\* references, or in error with no open stream.
C8_FlipLeavesOneStream ==
  [][ flip_pending /\ ~flip_pending' =>
        \/ video_state' = "previewing" /\ v_open' = {video_stream'}
        \/ video_state' = "error" /\ v_open' = {} ]_vars

\* what an operation that fails fast leaves alone
C9_Frame ==
  UNCHANGED <<video_state, video_stream, v_media_recorder, v_media_chunks,
              back_camera, facingMode, pictures>>

\* C9: flip_camera, take_picture and start_video invoked outside previewing,
\* and save_video run outside recording, raise "Invalid state" and leave
\* video_state, video_stream, media_recorder, media_chunks, the facing mode
\* and the output list as they were (for save_video: as the dataavailable
\* handler of the same task left them).
C9_FailFast ==
  [][ /\ (video_state # "previewing" /\ (flip_camera \/ take_picture \/ start_video)
            => v_exc' = "Invalid state" /\ C9_Frame)
      /\ \A r \in VideoRecIds :
           (video_state # "recording" /\ save_video(r)
              => /\ v_exc' = "Invalid state"
                 /\ v_media_chunks' = video_ondataavailable(v_media_chunks, r)
                 /\ UNCHANGED <<video_state, video_stream, v_media_recorder,
                                back_camera, facingMode, pictures>>) ]_vars

\* an operation was invoked in stopped, before any preview was requested, and
\* raised "Invalid state"
C9_Witness ==
  /\ video_state = "stopped"
  /\ v_issued = 0
  /\ v_exc = "Invalid state"

\* C10: after the handler of a recorder's stop event has run, in whatever
\* state, the chunk buffer is empty and the recorder handle is null.
C10_FinalizeCleansUp ==
  [][ /\ ((\E r \in AudioIds : a_rec[r] = "stopping" /\ a_rec'[r] = "inactive")
            => a_media_chunks' = <<>> /\ a_media_recorder' = 0)
      /\ ((\E r \in VideoRecIds : v_rec[r] = "stopping" /\ v_rec'[r] = "inactive")
            => v_media_chunks' = <<>> /\ v_media_recorder' = 0) ]_vars

\* C11: once audio_state has left recording, a running render loop draws
\* (clears the canvas) exactly once more and requests no further frame: a
\* loop that has drawn since audio_state left recording has no frame request
\* pending.
C11_OneMoreClearThenStop ==
  \A s \in AudioIds : a_tail[s] = "cleared" => s \notin a_frames

\* the stop event of some recorder of the controller is handled in this step
AudioStopDelivered ==
  \E r \in AudioIds : a_rec[r] = "stopping" /\ a_rec'[r] = "inactive"
VideoStopDelivered ==
  \E r \in VideoRecIds : v_rec[r] = "stopping" /\ v_rec'[r] = "inactive"

\* C12: a device-access denial and a recorder error event leave the
\* controller in error with its buttons disabled and the primary button
\* labelled "Error", and the recorder stop event handled while the controller
\* is in error raises no exception.
C12_ErrorsDisableAndNoThrow ==
  [][ /\ (audio_denied \/ \E r \in AudioIds : audio_recorder_error(r))
           => /\ audio_state' = "error"
              /\ audio_button' = [textContent |-> "Error", disabled |-> TRUE]
      /\ (video_denied \/ \E r \in VideoRecIds : video_recorder_error(r))
           => /\ video_state' = "error"
              /\ ui' = [preview_text |-> "Error", preview_disabled |-> TRUE,
                        flip_disabled |-> TRUE, photo_disabled |-> TRUE,
                        video_disabled |-> TRUE]
      /\ (audio_state = "error" /\ AudioStopDelivered => a_exc' = "none")
      /\ (video_state = "error" /\ VideoStopDelivered => v_exc' = "none") ]_vars

\* C13: the preview button's label and the disabled flags of the four
\* video buttons are a function of video_state (and can_flip for the flip
\* button): flip, photo and record enabled only in previewing, everything
\* disabled in error.
C13_UiIsFunctionOfState ==
  ui = [preview_text |-> CASE video_state = "stopped" -> "Preview"
                           [] video_state = "previewing" -> "Close"
                           [] video_state = "recording" -> "Stop"
                           [] OTHER -> "Error",
        preview_disabled |-> (video_state = "error"),
        flip_disabled |-> ~(video_state = "previewing" /\ can_flip),
        photo_disabled |-> (video_state # "previewing"),
        video_disabled |-> (video_state # "previewing")]

\* start_video constructed and started a recorder in this step
VideoRecorderStarted ==
  \E r \in VideoRecIds : v_rec[r] = "none" /\ v_rec'[r] = "recording"

\* C14: start_video takes effect only in previewing and moves to recording;
\* when the stop event of a recorder stopped by a preview-button click is
\* delivered, the controller is in previewing, exactly one video element has
\* been appended, and video_stream is unchanged and still open.
C14_StopReturnsToPreview ==
  [][ /\ VideoRecorderStarted
           => video_state = "previewing" /\ video_state' = "recording"
      /\ VideoStopDelivered
           => /\ video_state' = "previewing"
              /\ Len(pictures') = Len(pictures) + 1
              /\ pictures'[Len(pictures')].kind = "video"
              /\ video_stream' = video_stream
              /\ video_stream' \in v_open' ]_vars

\* an img element was appended to #pictures in this step
PictureAppended ==
  /\ Len(pictures') = Len(pictures) + 1
  /\ pictures'[Len(pictures')].kind = "img"

\* C15: a take_picture in previewing appends exactly one img element and
\* changes nothing else (video_state stays previewing; video_stream,
\* media_recorder, media_chunks and the facing mode are unchanged), and no
\* img is ever appended outside previewing; so n consecutive invocations
\* append exactly n images.
C15_PhotoOnlyAppends ==
  [][ /\ (video_state = "previewing" /\ take_picture) => PictureAppended
      /\ PictureAppended
           => /\ video_state = "previewing" /\ video_state' = "previewing"
              /\ pictures' = Append(pictures, [kind |-> "img", chunks |-> <<>>,
                                               type |-> "image/png"])
              /\ v_exc' = "none"
              /\ UNCHANGED <<video_stream, v_media_recorder, v_media_chunks,
                             facingMode, back_camera, can_flip, ui, v_open,
                             v_rec, v_issued, v_pending>> ]_vars

\* two photos in a row have been taken and the preview is still running
C15_Witness ==
  /\ video_state = "previewing"
  /\ video_stream \in v_open
  /\ Len(pictures) >= 2
  /\ pictures[Len(pictures)].kind = "img"
  /\ pictures[Len(pictures) - 1].kind = "img"

\* the first entry of an ordered fallback list that the platform reports as
\* supported ("" if it supports none)
FirstSupported(list) ==
  IF \E i \in 1..Len(list) : isTypeSupported(list[i])
  THEN list[CHOOSE i \in 1..Len(list) :
              /\ isTypeSupported(list[i])
              /\ \A j \in 1..(i - 1) : ~isTypeSupported(list[j])]
  ELSE ""

\* C16: every recorder, audio or video, has been constructed with the first
\* entry of its fallback list that the platform supports: with the second
\* entry on a platform that supports only the second, and never with a type
\* the platform reports as unsupported.
C16_FirstSupportedCodec ==
  /\ \A r \in AudioIds : a_rec[r] # "none" =>
        /\ isTypeSupported(a_mimeType[r])
        /\ a_mimeType[r] = FirstSupported(<<chrome_audio_mimeType,
                                            safari_audio_mimeType>>)
        /\ platform = {"mp4"} => a_mimeType[r] = safari_audio_mimeType
  /\ \A r \in VideoRecIds : v_rec[r] # "none" =>
        /\ isTypeSupported(v_mimeType[r])
        /\ v_mimeType[r] = FirstSupported(<<chrome_video_mimeType,
                                            safari_video_mimeType>>)
        /\ platform = {"mp4"} => v_mimeType[r] = safari_video_mimeType

\* on a platform that supports only the second entry, an audio recorder has
\* been constructed with the second entry
C16_Witness ==
  /\ platform = {"mp4"}
  /\ \E r \in AudioIds : a_rec[r] = "recording"
                         /\ a_mimeType[r] = safari_audio_mimeType

\* C17: a click on the audio button in state error is a no-op: no
\* device-access request is issued, no recorder is touched, and audio_state,
\* audio_stream, media_recorder, media_chunks, the button's label and disabled
\* flag and the list of clips are unchanged.
C17_ClickInErrorIsNoOp ==
  [][ (audio_state = "error" /\ audio_button_onclick)
        => /\ a_exc' = "none"
           /\ UNCHANGED <<audio_state, audio_stream, a_media_recorder,
                          a_media_chunks, audio_button, sound_clips,
                          a_issued, a_pending, a_granted, a_open, a_rec,
                          a_mimeType, a_frames>> ]_vars

\* the button has been clicked in state error
C17_Witness ==
  /\ audio_state = "error"
  /\ a_console = "Can't handle audio button click in state"

\* chunks is a non-empty sequence of chunks that recorder r emitted, and of
\* no other recorder's
ChunksOf(chunks, r) ==
  /\ chunks # <<>>
  /\ \A j \in DOMAIN chunks : chunks[j] = r

VideoClips == {i \in DOMAIN pictures : pictures[i].kind = "video"}

\* C18: each completed recording (its recorder has delivered its stop event)
\* has exactly one clip, made of its own recorder's chunks only; every clip
\* belongs to a completed recording; and there are as many clips as completed
\* recordings.
C18_OneClipPerRecording ==
  /\ \A r \in AudioIds : a_rec[r] = "inactive" =>
        Cardinality({i \in DOMAIN sound_clips :
                       ChunksOf(sound_clips[i].chunks, r)}) = 1
  /\ \A i \in DOMAIN sound_clips :
        \E r \in AudioIds : a_rec[r] = "inactive"
                            /\ ChunksOf(sound_clips[i].chunks, r)
  /\ Len(sound_clips) = Cardinality({r \in AudioIds : a_rec[r] = "inactive"})
  /\ \A r \in VideoRecIds : v_rec[r] = "inactive" =>
        Cardinality({i \in VideoClips : ChunksOf(pictures[i].chunks, r)}) = 1
  /\ \A i \in VideoClips :
        \E r \in VideoRecIds : v_rec[r] = "inactive"
                               /\ ChunksOf(pictures[i].chunks, r)
  /\ Cardinality(VideoClips)
       = Cardinality({r \in VideoRecIds : v_rec[r] = "inactive"})

\* C19: whenever a controller's state is recording, its recorder handle is
\* non-null and its stream handle references an open stream, so that
\* media_recorder.stop() in the click handlers never dereferences null.
C19_RecordingHasRecorderAndStream ==
  /\ audio_state = "recording" => /\ a_media_recorder # 0
                                  /\ audio_stream \in a_open
  /\ video_state = "recording" => /\ v_media_recorder # 0
                                  /\ video_stream \in v_open

\* C20: the stop event of a video recorder is delivered only while
\* video_state is recording, so that the state check at the top of save_video
\* never fails.
C20_StopOnlyInRecording ==
  [][ VideoStopDelivered => video_state = "recording" /\ v_exc' # "Invalid state" ]_vars

\* C21: at most one waveform render loop has an animation-frame request
\* pending at any time, and a loop that will draw on (audio_state is
\* recording) is the loop of the controller's current, open stream: a loop
\* started for one recording does not survive into the next.
C21_OneRenderLoop ==
  /\ Cardinality(a_frames) <= 1
  /\ \A s \in a_frames :
        audio_state = "recording" => s = audio_stream /\ s \in a_open

====
